---------------------------- MODULE Spec2Model ----------------------------
(***************************************************************************)
(* A model of the page-id merge (src/page.go) and of the OS-facing layer   *)
(* (src/bolt_unix.go: flock, funlock, mmap, munmap) of the bolt key-value  *)
(* store.                                                                  *)
(*                                                                         *)
(* Four state machines share this module, one per subsystem.  Each has    *)
(* its own variables and its own specification; the variables of the      *)
(* other subsystems stay at their initial values:                         *)
(*   PageSpec   typ and the element accessors of one page view             *)
(*   MergeSpec  pgids.merge / mergepgids, one loop iteration per step      *)
(*   Spec       flock / funlock of several processes on one database file  *)
(*   MmapSpec   mmap / munmap of one database handle                       *)
(* Two more specifications add fairness, for the liveness properties:      *)
(*   MergeFairSpec  MergeSpec with the call running to its end             *)
(*   LiveSpec       flock with timeout = 0 and funlock, the retry loop     *)
(*                  running on                                             *)
(***************************************************************************)
EXTENDS Integers, Sequences, FiniteSets, Bags, TLC

VARIABLES
    \* ---- pgids.merge / mergepgids (src/page.go) ----
    ma,        \* argument a (receiver of merge), a sequence of page ids
    mb,        \* argument b
    dst,       \* the destination array of mergepgids (merged := make(...))
    mlen,      \* len(merged): merged is the slice dst[:mlen]
    lead,      \* the local slice lead
    follow,    \* the local slice follow
    mpc,       \* position: "merge", "mergepgids", "loop", "final", "return"
               \*   (mergepgids returned to merge), "done" (merge returned),
               \*   "returned" (mergepgids returned to another caller), "panic"
    mret,      \* the value merge returned (meaningful when mpc = "done")
    mcaller,   \* who calls mergepgids: "merge", or "direct" for a caller
               \*   that passes its own dst
    dst0       \* dst as the caller passed it to mergepgids

mergeVars == <<ma, mb, dst, mlen, lead, follow, mpc, mret, mcaller, dst0>>

VARIABLES
    \* ---- flock / funlock (src/bolt_unix.go) ----
    now,       \* the clock time.Now() reads, in ticks
    held,      \* kernel: the flock(2) lock each process's descriptor holds:
               \*   "none", "sh" or "ex"
    fd,        \* kernel: "ok", or the error it answers for the descriptor
    pc,        \* position of each process: "idle", "attempt" (line 33),
               \*   "check" (line 42), "sleep" (line 48)
    exclusive, \* argument exclusive of the handle's flock call
    timeout,   \* argument timeout of the handle's flock call
    t,         \* the local t of flock: time of the first attempt, or ZeroTime
    wake,      \* the time at which the current time.Sleep is over
    since,     \* the value time.Since(t) gave at the check of this iteration
    err,       \* the local err of flock: result of the last attempt
    ret,       \* what the flock call returned, "none" until it returns
    unret,     \* what the funlock call returned
    \* history of each handle, kept to state the properties; a handle's next
    \* call (flock or funlock) starts it afresh
    locked,    \* Locked/Unlocked of the handle's state machine: TRUE from a
               \*   flock that returned nil up to the next funlock
    attempts,  \* lock attempts made by the flock call
    sleeps,    \* sleeps started by the flock call
    blocked,   \* another handle held the exclusive lock during the whole call
    freeFirst, \* at the first attempt of the call the descriptor was valid
               \*   and no other handle was Locked
    trip       \* round trip: 1 after flock(exclusive) returned nil, 2 after
               \*   the funlock that followed returned nil, 3 once the next
               \*   call is flock(shared)

lockVars == <<now, held, fd, pc, exclusive, timeout, t, wake, since, err, ret,
              unret, locked, attempts, sleeps, blocked, freeFirst, trip>>

VARIABLES
    \* ---- mmap / munmap (src/bolt_unix.go) ----
    dataref,   \* db.dataref: the mapping the byte slice refers to, 0 for nil
    data,      \* db.data: the mapping whose first byte it points to, 0 for nil
    datasz,    \* db.datasz
    osmaps,    \* kernel: the mappings established in the process, [id, sz]
    nextMap,   \* kernel: the id of the next mapping established
    mcall      \* the last call of mmap or munmap: its arguments, the system
               \*   calls it made, what it returned, and the state before it

mmapVars == <<dataref, data, datasz, osmaps, nextMap, mcall>>

VARIABLES
    \* ---- page and its element accessors (src/page.go) ----
    page,      \* the page under view: addr, the byte offset of its header in
               \*   the buffer, and the header fields flags and count
    pcall      \* the last accessor call on the page: op, its argument arg
               \*   (an index or an element) and what it returned, ret

pageVars == <<page, pcall>>

-----------------------------------------------------------------------------
(* Bounds of the merge model *)

\* longest input slice
MaxLen == 3
\* largest page id drawn (page ids are 0..MaxPgid)
MaxPgid == 2

Pgids == 0..MaxPgid

\* s[i] <= s[i+1] for all i: the order pgids.Less / sort.Sort establish
IsSorted(s) == \A i \in 1..(Len(s) - 1) : s[i] <= s[i + 1]

SeqsUpTo(n) == UNION {[1..k -> Pgids] : k \in 0..n}

SortedPgids == {s \in SeqsUpTo(MaxLen) : IsSorted(s)}

\* the multiset of the values of a sequence
BagOf(s) == [v \in {s[i] : i \in 1..Len(s)} |-> Cardinality({i \in 1..Len(s) : s[i] = v})]

-----------------------------------------------------------------------------
(* Helpers of mergepgids *)

\* sort.Search(n, f) with f(i) = s[i] > x (0-based i): binary search for the
\* smallest index in [0, n) whose element is > x, n when there is none.
RECURSIVE SearchLoop(_, _, _, _)
SearchLoop(s, x, i, j) ==
    IF i < j
    THEN LET h == (i + j) \div 2
         IN  IF ~(s[h + 1] > x)
             THEN SearchLoop(s, x, h + 1, j)
             ELSE SearchLoop(s, x, i, h)
    ELSE i

Search(s, x) == SearchLoop(s, x, 0, Len(s))

\* append(dst[:k], s...): writes s into dst at 0-based offset k when it fits
\* the capacity; beyond the capacity Go allocates a new array and dst itself
\* is left untouched.
AppendAt(d, k, s) ==
    IF k + Len(s) <= Len(d)
    THEN [i \in 1..Len(d) |-> IF i > k /\ i <= k + Len(s) THEN s[i - k] ELSE d[i]]
    ELSE d

\* lead[:n-1], one element short
PrefixShort(s, n) == SubSeq(s, 1, n - 1)

\* lead[:n]
Prefix(s, n) == SubSeq(s, 1, n)

\* lead[n:]
LeadRest(s, n) == SubSeq(s, n + 1, Len(s))

\* make(pgids, n): n zero page ids
MakePgids(n) == [i \in 1..n |-> 0]

\* mergepgids going on whatever the length of dst
TooSmallNever(d, a, b) == FALSE

\* line 181: len(dst) < len(a)+len(b)
TooSmall(d, a, b) == Len(d) < Len(a) + Len(b)

\* mergepgids taking a as lead whatever the first elements
LeadIsBNever(a, b) == FALSE

\* line 199: b[0] < a[0]
LeadIsB(a, b) == b[1] < a[1]

\* where mergepgids returns to
ReturnTo(c) == IF c = "merge" THEN "return" ELSE "returned"

\* the buffers a caller of mergepgids passes as dst: any length up to one
\* more than the longest merge needs, holding one stale page id throughout
CallerDsts == {[i \in 1..n |-> v] : n \in 0..(2 * MaxLen + 1), v \in Pgids}

-----------------------------------------------------------------------------
(* pgids.merge and mergepgids *)

\* a caller is about to call a.merge(b), or mergepgids(dst, a, b) with a
\* buffer of its own
MergeInit ==
    /\ ma \in SortedPgids
    /\ mb \in SortedPgids
    /\ mcaller \in {"merge", "direct"}
    /\ IF mcaller = "merge"
       THEN dst = <<>> /\ mpc = "merge"
       ELSE dst \in CallerDsts /\ mpc = "mergepgids"
    /\ dst0 = dst
    /\ mlen = 0
    /\ lead = <<>>
    /\ follow = <<>>
    /\ mret = <<>>

\* a.merge(b): the two early returns, else allocate and call mergepgids
Merge ==
    /\ mpc = "merge"
    /\ IF Len(ma) = 0
       THEN /\ mret' = mb
            /\ mpc' = "done"
            /\ dst' = dst
       ELSE IF Len(mb) = 0
       THEN /\ mret' = ma
            /\ mpc' = "done"
            /\ dst' = dst
       ELSE /\ dst' = MakePgids(Len(ma) + Len(mb))
            /\ mpc' = "mergepgids"
            /\ mret' = mret
    /\ dst0' = dst'
    /\ UNCHANGED <<ma, mb, mlen, lead, follow, mcaller>>
    /\ UNCHANGED <<lockVars, mmapVars, pageVars>>

\* mergepgids up to the loop: the length check, the copies of an empty side,
\* merged := dst[:0] and the choice of lead and follow
MergepgidsEntry ==
    /\ mpc = "mergepgids"
    /\ IF TooSmall(dst, ma, mb)
       THEN /\ mpc' = "panic"
            /\ UNCHANGED <<dst, mlen, lead, follow>>
       ELSE IF Len(ma) = 0
       THEN /\ dst' = AppendAt(dst, 0, mb)
            /\ mpc' = ReturnTo(mcaller)
            /\ UNCHANGED <<mlen, lead, follow>>
       ELSE IF Len(mb) = 0
       THEN /\ dst' = AppendAt(dst, 0, ma)
            /\ mpc' = ReturnTo(mcaller)
            /\ UNCHANGED <<mlen, lead, follow>>
       ELSE /\ mlen' = 0
            /\ IF LeadIsB(ma, mb)
               THEN lead' = mb /\ follow' = ma
               ELSE lead' = ma /\ follow' = mb
            /\ mpc' = "loop"
            /\ dst' = dst
    /\ UNCHANGED <<ma, mb, mret, mcaller, dst0>>
    /\ UNCHANGED <<lockVars, mmapVars, pageVars>>

\* one iteration of  for len(lead) > 0 { ... }
MergeLoop ==
    /\ mpc = "loop"
    /\ IF Len(lead) > 0
       THEN LET n == Search(lead, follow[1])
                pre == Prefix(lead, n)
            IN  /\ dst' = AppendAt(dst, mlen, pre)
                /\ mlen' = mlen + Len(pre)
                /\ IF n >= Len(lead)
                   THEN /\ mpc' = "final"
                        /\ UNCHANGED <<lead, follow>>
                   ELSE /\ lead' = follow
                        /\ follow' = LeadRest(lead, n)
                        /\ mpc' = "loop"
       ELSE /\ mpc' = "final"
            /\ UNCHANGED <<dst, mlen, lead, follow>>
    /\ UNCHANGED <<ma, mb, mret, mcaller, dst0>>
    /\ UNCHANGED <<lockVars, mmapVars, pageVars>>

\* _ = append(merged, follow...) and the return of mergepgids
MergeFinal ==
    /\ mpc = "final"
    /\ dst' = AppendAt(dst, mlen, follow)
    /\ mpc' = ReturnTo(mcaller)
    /\ UNCHANGED <<ma, mb, mlen, lead, follow, mret, mcaller, dst0>>
    /\ UNCHANGED <<lockVars, mmapVars, pageVars>>

\* back in merge: return merged
MergeReturn ==
    /\ mpc = "return"
    /\ mret' = dst
    /\ mpc' = "done"
    /\ UNCHANGED <<ma, mb, dst, mlen, lead, follow, mcaller, dst0>>
    /\ UNCHANGED <<lockVars, mmapVars, pageVars>>

MergeNext == Merge \/ MergepgidsEntry \/ MergeLoop \/ MergeFinal \/ MergeReturn

\* no merge is running (the state of the merge variables in the other
\* specifications)
MergeIdle ==
    /\ ma = <<>>
    /\ mb = <<>>
    /\ dst = <<>>
    /\ mlen = 0
    /\ lead = <<>>
    /\ follow = <<>>
    /\ mpc = "none"
    /\ mret = <<>>
    /\ mcaller = "none"
    /\ dst0 = <<>>

-----------------------------------------------------------------------------
(* Bounds of the lock model *)

\* ticks of the clock in one retry interval
RetryTicks == 2
\* largest timeout argument drawn, in ticks
MaxTimeout == 3
\* the clock stops at MaxTime
MaxTime == 4

Procs == {"p1", "p2"}

Timeouts == 0..MaxTimeout

\* the errors of flock(2) other than EWOULDBLOCK that the model draws
OsErrors == {"EBADF", "ENOLCK"}

-----------------------------------------------------------------------------
(* Helpers of flock and funlock *)

\* the retry interval flockRetryTimeout, in ticks
flockRetryTimeout == RetryTicks

\* var t time.Time: the zero time, left in t when timeout = 0
ZeroTime == -1

\* time.Since saturates at the largest Duration
maxDuration == (2 ^ 30 - 1) * 2 + 1

\* time.Since(tp) read at clock value clock
Since(tp, clock) == IF tp = ZeroTime THEN maxDuration ELSE clock - tp

\* flag |= LOCK_SH whatever exclusive is
LockFlagAlwaysShared(ex) == "LOCK_SH"

\* the two branches of  if exclusive  swapped
LockFlagInverted(ex) == IF ex THEN "LOCK_SH" ELSE "LOCK_EX"

\* flag := LOCK_NB | (LOCK_EX if exclusive else LOCK_SH)
LockFlag(ex) == IF ex THEN "LOCK_EX" ELSE "LOCK_SH"

\* funlock passing LOCK_SH
FunlockFlagShared == "LOCK_SH"

\* the operation funlock passes
FunlockFlag == "LOCK_UN"

\* err != nil: retry whatever the error is
AfterAttemptRetryAll(e) == IF e = "nil" THEN "return" ELSE "check"

\* lines 34-38: nil and every error but EWOULDBLOCK return at once
AfterAttempt(e) ==
    IF e = "nil" THEN "return"
    ELSE IF e # "EWOULDBLOCK" THEN "return"
    ELSE "check"

\* the check without  timeout != 0 &&
TimedOutNoZeroGuard(T, s) == s > T - flockRetryTimeout

\* the check comparing with >=
TimedOutGe(T, s) == T # 0 /\ s >= T - flockRetryTimeout

\* the check against the whole timeout
TimedOutPastDeadline(T, s) == T # 0 /\ s > T

\* line 42: timeout != 0 && time.Since(t) > timeout-flockRetryTimeout
TimedOut(T, s) == T # 0 /\ s > T - flockRetryTimeout

\* flock(2): the lock of another open file description conflicts with the
\* request
Conflict(p, flag) ==
    \E q \in Procs \ {p} :
        \/ held[q] = "ex"
        \/ (flag = "LOCK_EX" /\ held[q] # "none")

ModeOf(flag) == IF flag = "LOCK_EX" THEN "ex" ELSE "sh"

\* syscall.Flock(fd, flag|LOCK_NB) and syscall.Flock(fd, LOCK_UN): the error
\* returned and the kernel's lock table afterwards.  A request for the mode
\* already held succeeds; a conversion first drops the lock held.
SysFlock(p, flag) ==
    IF fd[p] # "ok"
    THEN [err |-> fd[p], held |-> held]
    ELSE IF flag = "LOCK_UN"
    THEN [err |-> "nil", held |-> [held EXCEPT ![p] = "none"]]
    ELSE IF held[p] = ModeOf(flag)
    THEN [err |-> "nil", held |-> held]
    ELSE IF Conflict(p, flag)
    THEN [err |-> "EWOULDBLOCK", held |-> [held EXCEPT ![p] = "none"]]
    ELSE [err |-> "nil", held |-> [held EXCEPT ![p] = ModeOf(flag)]]

\* the history counters attempts and sleeps stop counting at a number no
\* call reaches while the clock runs up to MaxTime
MaxCounted == MaxTime + 2

Counted(n) == IF n < MaxCounted THEN n + 1 ELSE n

\* the discipline of the callers of flock: a lock attempt starts from
\* Unlocked; a Locked handle is unlocked before it is locked again (there is
\* no upgrade transition)
CallerMayLock(p) == ~locked[p]

\* another handle is Locked with the exclusive lock
OtherExclusive(p) == \E q \in Procs \ {p} : locked[q] /\ exclusive[q]

\* another handle is Locked
OtherLocked(p) == \E q \in Procs \ {p} : locked[q]

-----------------------------------------------------------------------------
(* flock and funlock *)

LockInit ==
    /\ now = 0
    /\ held = [p \in Procs |-> "none"]
    /\ fd = [p \in Procs |-> "ok"]
    /\ pc = [p \in Procs |-> "idle"]
    /\ exclusive = [p \in Procs |-> FALSE]
    /\ timeout = [p \in Procs |-> 0]
    /\ t = [p \in Procs |-> ZeroTime]
    /\ wake = [p \in Procs |-> 0]
    /\ since = [p \in Procs |-> 0]
    /\ err = [p \in Procs |-> "none"]
    /\ ret = [p \in Procs |-> "none"]
    /\ unret = [p \in Procs |-> "none"]
    /\ locked = [p \in Procs |-> FALSE]
    /\ attempts = [p \in Procs |-> 0]
    /\ sleeps = [p \in Procs |-> 0]
    /\ blocked = [p \in Procs |-> FALSE]
    /\ freeFirst = [p \in Procs |-> FALSE]
    /\ trip = [p \in Procs |-> 0]

\* flock(db, ex, T) is called and runs to the loop (lines 14-29)
FlockCall(p, ex, T) ==
    /\ pc[p] = "idle"
    /\ CallerMayLock(p)
    /\ pc' = [pc EXCEPT ![p] = "attempt"]
    /\ exclusive' = [exclusive EXCEPT ![p] = ex]
    /\ timeout' = [timeout EXCEPT ![p] = T]
    /\ t' = [t EXCEPT ![p] = IF T # 0 THEN now ELSE ZeroTime]
    /\ since' = [since EXCEPT ![p] = 0]
    /\ err' = [err EXCEPT ![p] = "none"]
    /\ ret' = [ret EXCEPT ![p] = "none"]
    /\ unret' = [unret EXCEPT ![p] = "none"]
    /\ attempts' = [attempts EXCEPT ![p] = 0]
    /\ sleeps' = [sleeps EXCEPT ![p] = 0]
    /\ blocked' = [blocked EXCEPT ![p] = OtherExclusive(p)]
    /\ freeFirst' = [freeFirst EXCEPT ![p] = FALSE]
    /\ trip' = [trip EXCEPT ![p] = IF trip[p] = 2 /\ ~ex THEN 3 ELSE 0]
    /\ UNCHANGED <<now, held, fd, wake, locked>>
    /\ UNCHANGED <<mergeVars, mmapVars, pageVars>>

\* one attempt, lines 33-38: the system call and the two returns
FlockAttempt(p) ==
    /\ pc[p] = "attempt"
    /\ LET r == SysFlock(p, LockFlag(exclusive[p]))
           returns == AfterAttempt(r.err) = "return"
       IN  /\ held' = r.held
           /\ err' = [err EXCEPT ![p] = r.err]
           /\ attempts' = [attempts EXCEPT ![p] = Counted(@)]
           /\ freeFirst' = [freeFirst EXCEPT ![p] =
                  IF attempts[p] = 0 THEN fd[p] = "ok" /\ ~OtherLocked(p) ELSE @]
           /\ pc' = [pc EXCEPT ![p] = IF returns THEN "idle" ELSE "check"]
           /\ ret' = [ret EXCEPT ![p] = IF returns THEN r.err ELSE @]
           /\ t' = [t EXCEPT ![p] = IF returns THEN ZeroTime ELSE @]
           /\ locked' = [locked EXCEPT ![p] = returns /\ r.err = "nil"]
           /\ trip' = [trip EXCEPT ![p] =
                  IF ~returns \/ @ = 3 THEN @
                  ELSE IF r.err = "nil" /\ exclusive[p] THEN 1 ELSE 0]
    /\ UNCHANGED <<now, fd, exclusive, timeout, wake, since, unret, sleeps,
                   blocked>>
    /\ UNCHANGED <<mergeVars, mmapVars, pageVars>>

\* after EWOULDBLOCK, lines 42-48: return ErrTimeout or start the sleep.
\* time.Since is evaluated only when timeout != 0.
FlockCheck(p) ==
    /\ pc[p] = "check"
    /\ LET s == Since(t[p], now)
       IN  /\ since' = [since EXCEPT ![p] = IF timeout[p] # 0 THEN s ELSE @]
           /\ IF TimedOut(timeout[p], s)
              THEN /\ pc' = [pc EXCEPT ![p] = "idle"]
                   /\ ret' = [ret EXCEPT ![p] = "ErrTimeout"]
                   /\ t' = [t EXCEPT ![p] = ZeroTime]
                   /\ UNCHANGED <<wake, sleeps>>
              ELSE /\ pc' = [pc EXCEPT ![p] = "sleep"]
                   /\ wake' = [wake EXCEPT ![p] = now + flockRetryTimeout]
                   /\ sleeps' = [sleeps EXCEPT ![p] = Counted(@)]
                   /\ UNCHANGED <<ret, t>>
    /\ UNCHANGED <<now, held, fd, exclusive, timeout, err, unret, locked,
                   attempts, blocked, freeFirst, trip>>
    /\ UNCHANGED <<mergeVars, mmapVars, pageVars>>

\* time.Sleep(flockRetryTimeout) is over: at least the interval has passed
FlockWake(p) ==
    /\ pc[p] = "sleep"
    /\ now >= wake[p]
    /\ pc' = [pc EXCEPT ![p] = "attempt"]
    /\ wake' = [wake EXCEPT ![p] = 0]
    /\ since' = [since EXCEPT ![p] = 0]
    /\ UNCHANGED <<now, held, fd, exclusive, timeout, t, err, ret, unret,
                   locked, attempts, sleeps, blocked, freeFirst, trip>>
    /\ UNCHANGED <<mergeVars, mmapVars, pageVars>>

\* time.Sleep(flockRetryTimeout) returns, the clock left out: a call with
\* timeout = 0 never reads it (lines 16 and 42)
SleepReturns(p) ==
    /\ pc[p] = "sleep"
    /\ timeout[p] = 0
    /\ pc' = [pc EXCEPT ![p] = "attempt"]
    /\ wake' = [wake EXCEPT ![p] = 0]
    /\ since' = [since EXCEPT ![p] = 0]
    /\ UNCHANGED <<now, held, fd, exclusive, timeout, t, err, ret, unret,
                   locked, attempts, sleeps, blocked, freeFirst, trip>>
    /\ UNCHANGED <<mergeVars, mmapVars, pageVars>>

\* funlock(db): one system call, its error returned
Funlock(p) ==
    /\ pc[p] = "idle"
    /\ LET r == SysFlock(p, FunlockFlag)
       IN  /\ held' = r.held
           /\ unret' = [unret EXCEPT ![p] = r.err]
           /\ trip' = [trip EXCEPT ![p] =
                  IF @ = 1 /\ r.err = "nil" THEN 2 ELSE 0]
    /\ locked' = [locked EXCEPT ![p] = FALSE]
    /\ blocked' = [q \in Procs |->
           IF q = p \/ (pc[q] # "idle" /\ locked[p] /\ exclusive[p])
           THEN FALSE ELSE blocked[q]]
    /\ exclusive' = [exclusive EXCEPT ![p] = FALSE]
    /\ timeout' = [timeout EXCEPT ![p] = 0]
    /\ since' = [since EXCEPT ![p] = 0]
    /\ err' = [err EXCEPT ![p] = "none"]
    /\ ret' = [ret EXCEPT ![p] = "none"]
    /\ attempts' = [attempts EXCEPT ![p] = 0]
    /\ sleeps' = [sleeps EXCEPT ![p] = 0]
    /\ freeFirst' = [freeFirst EXCEPT ![p] = FALSE]
    /\ UNCHANGED <<now, fd, pc, t, wake>>
    /\ UNCHANGED <<mergeVars, mmapVars, pageVars>>

\* the clock advances
Tick ==
    /\ now < MaxTime
    /\ now' = now + 1
    /\ UNCHANGED <<held, fd, pc, exclusive, timeout, t, wake, since, err, ret,
                   unret, locked, attempts, sleeps, blocked, freeFirst, trip>>
    /\ UNCHANGED <<mergeVars, mmapVars, pageVars>>

\* the kernel starts to refuse the descriptor of an Unlocked handle: EBADF
\* once the file is closed (after funlock), ENOLCK when it has no memory for
\* lock records; it answers that error from then on
OsFault(p, e) ==
    /\ fd[p] = "ok"
    /\ held[p] = "none"
    /\ ~locked[p]
    /\ fd' = [fd EXCEPT ![p] = e]
    /\ UNCHANGED <<now, held, pc, exclusive, timeout, t, wake, since, err, ret,
                   unret, locked, attempts, sleeps, blocked, freeFirst, trip>>
    /\ UNCHANGED <<mergeVars, mmapVars, pageVars>>

-----------------------------------------------------------------------------
(* Bounds of the mmap model *)

\* mappings the kernel establishes in one run
MaxMaps == 3
\* largest size argument drawn
MaxSz == 2

Sizes == 0..MaxSz

-----------------------------------------------------------------------------
(* Helpers of mmap and munmap *)

\* the fields db.dataref, db.data, db.datasz
Fields(ref, ptr, sz) == [dataref |-> ref, data |-> ptr, datasz |-> sz]

\* syscall.Mmap: a length of 0 is EINVAL; otherwise the kernel may succeed
\* or refuse
SysMmapResults(sz) == IF sz = 0 THEN {"EINVAL"} ELSE {"nil", "ENOMEM"}

\* madvise(b, MADV_RANDOM)
SysMadviseResults == {"nil", "ENOSYS", "EINVAL"}

\* syscall.Munmap of an established mapping
SysMunmapResults == {"nil", "EINVAL"}

\* mmap giving up on every advise error, the not-implemented one included
AdviseFatalOnEnosys(e) == e # "nil"

\* line 70: err != nil && err != syscall.ENOSYS
AdviseFatal(e) == e # "nil" /\ e # "ENOSYS"

\* munmap clearing the buffer reference only
MunmapFieldsRefOnly(f, e) == Fields(0, f.data, f.datasz)

\* munmap returning before the fields are cleared when Munmap failed
MunmapFieldsKeptOnError(f, e) == IF e # "nil" THEN f ELSE Fields(0, 0, 0)

\* lines 92-94: the fields munmap leaves after syscall.Munmap returned e
MunmapFields(f, e) == Fields(0, 0, 0)

\* munmap going to the kernel whatever the fields say
NothingMappedNever(ref) == FALSE

\* line 86: db.dataref == nil
NothingMapped(ref) == ref = 0

\* the record of the last call on the handle: its arguments and result, the
\* fields and mappings it found, the system calls it made and their answers,
\* the call before it, and the last mmap that returned nil
NoCall == [op |-> "none", sz |-> 0, ret |-> "none", pre |-> Fields(0, 0, 0),
           premaps |-> {}, created |-> 0, advised |-> FALSE, adv |-> "none",
           sysUnmap |-> FALSE, prevOp |-> "none", prevRef |-> 0,
           prevRet |-> "none", lastId |-> 0, lastSz |-> 0]

-----------------------------------------------------------------------------
(* mmap and munmap *)

MmapInit ==
    /\ dataref = 0
    /\ data = 0
    /\ datasz = 0
    /\ osmaps = {}
    /\ nextMap = 1
    /\ mcall = NoCall

\* mmap(db, sz): syscall.Mmap answers mres, madvise answers ares
Mmap(sz, mres, ares) ==
    /\ nextMap <= MaxMaps
    /\ mres \in SysMmapResults(sz)
    /\ LET pre == Fields(dataref, data, datasz)
           call == [op |-> "mmap", sz |-> sz, pre |-> pre, premaps |-> osmaps,
                    sysUnmap |-> FALSE, prevOp |-> mcall.op,
                    prevRef |-> mcall.pre.dataref, prevRet |-> mcall.ret]
           last == [lastId |-> mcall.lastId, lastSz |-> mcall.lastSz]
       IN  IF mres # "nil"
           THEN \* line 64-66: the mapping failed
                /\ mcall' = call @@ last @@
                        [ret |-> mres, created |-> 0, advised |-> FALSE,
                         adv |-> "none"]
                /\ UNCHANGED <<dataref, data, datasz, osmaps, nextMap>>
           ELSE /\ osmaps' = osmaps \cup {[id |-> nextMap, sz |-> sz]}
                /\ nextMap' = nextMap + 1
                /\ IF AdviseFatal(ares)
                   THEN \* line 70-73
                        /\ mcall' = call @@ last @@
                                [ret |-> "madvise", created |-> nextMap,
                                 advised |-> TRUE, adv |-> ares]
                        /\ UNCHANGED <<dataref, data, datasz>>
                   ELSE \* line 77-80
                        /\ dataref' = nextMap
                        /\ data' = nextMap
                        /\ datasz' = sz
                        /\ mcall' = call @@
                                [ret |-> "nil", created |-> nextMap,
                                 advised |-> TRUE, adv |-> ares,
                                 lastId |-> nextMap, lastSz |-> sz]
    /\ UNCHANGED <<mergeVars, lockVars, pageVars>>

\* munmap(db): syscall.Munmap, when called, answers ures
Munmap(ures) ==
    /\ LET pre == Fields(dataref, data, datasz)
           call == [op |-> "munmap", sz |-> 0, pre |-> pre, premaps |-> osmaps,
                    created |-> 0, advised |-> FALSE, adv |-> "none",
                    prevOp |-> mcall.op, prevRef |-> mcall.pre.dataref,
                    prevRet |-> mcall.ret, lastId |-> mcall.lastId,
                    lastSz |-> mcall.lastSz]
       IN  IF NothingMapped(dataref)
           THEN /\ ures = "nil"
                /\ mcall' = call @@ [ret |-> "nil", sysUnmap |-> FALSE]
                /\ UNCHANGED <<dataref, data, datasz, osmaps>>
           ELSE LET f == MunmapFields(pre, ures)
                IN  /\ osmaps' = IF ures = "nil"
                                 THEN {m \in osmaps : m.id # dataref}
                                 ELSE osmaps
                    /\ dataref' = f.dataref
                    /\ data' = f.data
                    /\ datasz' = f.datasz
                    /\ mcall' = call @@ [ret |-> ures, sysUnmap |-> TRUE]
    /\ UNCHANGED nextMap
    /\ UNCHANGED <<mergeVars, lockVars, pageVars>>

MmapNext ==
    \/ \E sz \in Sizes, mres \in {"nil", "ENOMEM", "EINVAL"},
          ares \in SysMadviseResults : Mmap(sz, mres, ares)
    \/ \E ures \in SysMunmapResults : Munmap(ures)

-----------------------------------------------------------------------------
(* Bounds of the page model *)

\* low bits of the 16-bit flags field that are drawn
FlagWidth == 5
\* largest count field drawn
MaxCount == 2
\* largest byte offset of the page header in the buffer
MaxAddr == 1
\* largest pos, ksize and vsize field drawn
MaxField == 2

FlagValues == 0..(2 ^ FlagWidth - 1)
Counts == 0..MaxCount
\* the indexes callers pass, one beyond the largest count included
Indexes == 0..(MaxCount + 1)
PageAddrs == 0..MaxAddr
FieldValues == 0..MaxField

-----------------------------------------------------------------------------
(* The page format *)

\* unsafe.Sizeof(page{}): id 8, flags 2, count 2, overflow 4 bytes
pageHeaderSize == 16
\* unsafe.Sizeof(branchPageElement{}): pos 4, ksize 4, pgid 8 bytes
branchPageElementSize == 16
\* unsafe.Sizeof(leafPageElement{}): flags, pos, ksize, vsize of 4 bytes
leafPageElementSize == 16

branchPageFlag == 1
leafPageFlag == 2
metaPageFlag == 4
freelistPageFlag == 16

\* a nil pointer; addresses in the buffer are byte offsets from 0
NilPtr == -1

\* (flags & m) != 0 for a mask m of a single bit
HasFlag(flags, m) == (flags \div m) % 2 = 1

HexDigits == <<"0", "1", "2", "3", "4", "5", "6", "7",
               "8", "9", "a", "b", "c", "d", "e", "f">>

\* the verb %x of fmt: the digits of n in base 16, lower case
RECURSIVE Hex(_)
Hex(n) == IF n < 16
          THEN HexDigits[n + 1]
          ELSE Hex(n \div 16) \o HexDigits[(n % 16) + 1]

\* the verb %02x: padded with a zero to two digits
Hex02(n) == IF n < 16 THEN "0" \o Hex(n) ELSE Hex(n)

\* page.typ
typ(flags) ==
    IF HasFlag(flags, branchPageFlag) THEN "branch"
    ELSE IF HasFlag(flags, leafPageFlag) THEN "leaf"
    ELSE IF HasFlag(flags, metaPageFlag) THEN "meta"
    ELSE IF HasFlag(flags, freelistPageFlag) THEN "freelist"
    ELSE "unknown<" \o Hex02(flags) \o ">"

\* unsafeAdd(base, offset): the address offset bytes after base
unsafeAdd(base, offset) == base + offset

\* unsafeIndex(base, offset, elemsz, n): the address of the n-th record of
\* elemsz bytes in the array that starts offset bytes after base
unsafeIndex(base, offset, elemsz, n) == base + offset + n * elemsz

\* unsafeSlice(&elems, data, len): elems becomes the slice of len records
\* at data; size is the size of the slice's element type
unsafeSlice(d, len, size) == [data |-> d, len |-> len, size |-> size]

\* unsafeByteSlice(base, offset, i, j): the bytes [i, j) counted from the
\* address offset bytes after base, as a range of buffer addresses
unsafeByteSlice(base, offset, i, j) ==
    [lo |-> base + offset + i, hi |-> base + offset + j]

\* a nil slice of records of the given size
NilSlice(size) == [data |-> NilPtr, len |-> 0, size |-> size]

\* page.leafPageElement(index)
leafPageElement(p, index) ==
    unsafeIndex(p.addr, pageHeaderSize, leafPageElementSize, index)

\* page.branchPageElement(index)
branchPageElement(p, index) ==
    unsafeIndex(p.addr, pageHeaderSize, branchPageElementSize, index)

\* the leaf records taken from the page's own address, the header skipped
leafPageElementsAtBase(p) ==
    IF p.count = 0
    THEN NilSlice(leafPageElementSize)
    ELSE unsafeSlice(p.addr, p.count, leafPageElementSize)

\* page.leafPageElements()
leafPageElements(p) ==
    IF p.count = 0
    THEN NilSlice(leafPageElementSize)
    ELSE unsafeSlice(unsafeAdd(p.addr, pageHeaderSize), p.count,
                     leafPageElementSize)

\* page.branchPageElements()
branchPageElements(p) ==
    IF p.count = 0
    THEN NilSlice(branchPageElementSize)
    ELSE unsafeSlice(unsafeAdd(p.addr, pageHeaderSize), p.count,
                     branchPageElementSize)

\* leafPageElement.key(); n is the element: its address and its fields.
\* int is 64 bits wide: the sums of 32-bit fields do not wrap
leafKey(n) == unsafeByteSlice(n.addr, 0, n.pos, n.pos + n.ksize)

\* the value taken from pos, on top of the key
leafValueAtPos(n) == unsafeByteSlice(n.addr, 0, n.pos, n.pos + n.vsize)

\* leafPageElement.value()
leafValue(n) ==
    unsafeByteSlice(n.addr, 0, n.pos + n.ksize, n.pos + n.ksize + n.vsize)

\* the record of the accessor call made on the view: the accessor, its
\* argument, what it returned, and whether it panicked
NoPageCall == [op |-> "none", arg |-> 0, ret |-> 0, panic |-> FALSE]

\* the leaf element at address a whose fields in the buffer are pos, ksize
\* and vsize
LeafElement(a, pos, ksize, vsize) ==
    [addr |-> a, pos |-> pos, ksize |-> ksize, vsize |-> vsize]

-----------------------------------------------------------------------------
(* The accessors of a page view.  The accessors read the view and change  *)
(* nothing: a behaviour is one view and one call on it.                   *)

\* a view of a page somewhere in the buffer, with any header
PageInit ==
    /\ page \in [addr : PageAddrs, flags : FlagValues, count : Counts]
    /\ pcall = NoPageCall

\* p.typ()
Typ ==
    /\ pcall.op = "none"
    /\ pcall' = [op |-> "typ", arg |-> page.flags, ret |-> typ(page.flags),
                 panic |-> FALSE]
    /\ UNCHANGED page
    /\ UNCHANGED <<mergeVars, lockVars, mmapVars>>

\* p.leafPageElement(index)
LeafPageElementCall(index) ==
    /\ pcall.op = "none"
    /\ pcall' = [op |-> "leafPageElement", arg |-> index,
                 ret |-> leafPageElement(page, index), panic |-> FALSE]
    /\ UNCHANGED page
    /\ UNCHANGED <<mergeVars, lockVars, mmapVars>>

\* p.branchPageElement(index)
BranchPageElementCall(index) ==
    /\ pcall.op = "none"
    /\ pcall' = [op |-> "branchPageElement", arg |-> index,
                 ret |-> branchPageElement(page, index), panic |-> FALSE]
    /\ UNCHANGED page
    /\ UNCHANGED <<mergeVars, lockVars, mmapVars>>

\* p.leafPageElements()
LeafPageElementsCall ==
    /\ pcall.op = "none"
    /\ pcall' = [op |-> "leafPageElements", arg |-> 0,
                 ret |-> leafPageElements(page), panic |-> FALSE]
    /\ UNCHANGED page
    /\ UNCHANGED <<mergeVars, lockVars, mmapVars>>

\* p.branchPageElements()
BranchPageElementsCall ==
    /\ pcall.op = "none"
    /\ pcall' = [op |-> "branchPageElements", arg |-> 0,
                 ret |-> branchPageElements(page), panic |-> FALSE]
    /\ UNCHANGED page
    /\ UNCHANGED <<mergeVars, lockVars, mmapVars>>

\* n.key() on the index-th leaf element of the page, which holds n
LeafKeyCall(index, pos, ksize, vsize) ==
    /\ pcall.op = "none"
    /\ index < page.count
    /\ LET n == LeafElement(leafPageElement(page, index), pos, ksize, vsize)
       IN  pcall' = [op |-> "key", arg |-> n, ret |-> leafKey(n),
                     panic |-> FALSE]
    /\ UNCHANGED page
    /\ UNCHANGED <<mergeVars, lockVars, mmapVars>>

\* n.value() on the index-th leaf element of the page, which holds n
LeafValueCall(index, pos, ksize, vsize) ==
    /\ pcall.op = "none"
    /\ index < page.count
    /\ LET n == LeafElement(leafPageElement(page, index), pos, ksize, vsize)
       IN  pcall' = [op |-> "value", arg |-> n, ret |-> leafValue(n),
                     panic |-> FALSE]
    /\ UNCHANGED page
    /\ UNCHANGED <<mergeVars, lockVars, mmapVars>>

\* no page is under view (the state of the page variables in the other
\* specifications)
PageIdle ==
    /\ page = [addr |-> 0, flags |-> 0, count |-> 0]
    /\ pcall = NoPageCall

PageNext ==
    \/ Typ
    \/ \E index \in Indexes : LeafPageElementCall(index)
    \/ \E index \in Indexes : BranchPageElementCall(index)
    \/ LeafPageElementsCall
    \/ BranchPageElementsCall
    \/ \E index \in Indexes, pos, ksize, vsize \in FieldValues :
           LeafKeyCall(index, pos, ksize, vsize)
    \/ \E index \in Indexes, pos, ksize, vsize \in FieldValues :
           LeafValueCall(index, pos, ksize, vsize)

vars == <<mergeVars, lockVars, mmapVars, pageVars>>

\* a merge is called; no flock, funlock, mmap or munmap happens
MergeSpecInit == MergeInit /\ LockInit /\ MmapInit /\ PageIdle

MergeSpec == MergeSpecInit /\ [][MergeNext]_vars

\* the same, with the call running on: a Go function that can take a step
\* takes it
MergeFairSpec == MergeSpecInit /\ [][MergeNext]_vars /\ WF_vars(MergeNext)

\* a database handle with nothing mapped; only mmap and munmap happen
MmapSpecInit == MmapInit /\ MergeIdle /\ LockInit /\ PageIdle

MmapSpec == MmapSpecInit /\ [][MmapNext]_vars

\* the processes have opened the database file; no handle is Locked
Init == LockInit /\ MergeIdle /\ MmapInit /\ PageIdle

Next ==
    \/ \E p \in Procs, ex \in BOOLEAN, T \in Timeouts : FlockCall(p, ex, T)
    \/ \E p \in Procs : FlockAttempt(p)
    \/ \E p \in Procs : FlockCheck(p)
    \/ \E p \in Procs : FlockWake(p)
    \/ \E p \in Procs : Funlock(p)
    \/ \E p \in Procs, e \in OsErrors : OsFault(p, e)
    \/ Tick

Spec == Init /\ [][Next]_vars

\* the processes lock and unlock the database file with timeout = 0, and the
\* kernel may start to answer an error for a descriptor; the clock is left
\* out
LiveInit == LockInit /\ MergeIdle /\ MmapInit /\ PageIdle

LiveNext ==
    \/ \E p \in Procs, ex \in BOOLEAN : FlockCall(p, ex, 0)
    \/ \E p \in Procs : FlockAttempt(p)
    \/ \E p \in Procs : FlockCheck(p)
    \/ \E p \in Procs : SleepReturns(p)
    \/ \E p \in Procs : Funlock(p)
    \/ \E p \in Procs, e \in OsErrors : OsFault(p, e)

\* a flock call that can take its next step takes it: the attempt and the
\* check are straight-line code, and a sleep of flockRetryTimeout ends.
\* Nothing makes a process call flock or funlock.
LiveSpec ==
    /\ LiveInit
    /\ [][LiveNext]_vars
    /\ \A p \in Procs :
           /\ WF_vars(FlockAttempt(p))
           /\ WF_vars(FlockCheck(p))
           /\ WF_vars(SleepReturns(p))

\* a page view; only its accessors are called
PageSpecInit == PageInit /\ MergeIdle /\ LockInit /\ MmapInit

PageSpec == PageSpecInit /\ [][PageNext]_vars

-----------------------------------------------------------------------------
(* C1: for ascending-sorted a and b (duplicates allowed, either possibly   *)
(* empty) the sequence merge returns is ascending-sorted, its multiset of  *)
(* values is the multiset union of a and b, its length is len(a)+len(b),   *)
(* and merge(a, []) = a, merge([], b) = b.                                 *)
MergeSortedUnion ==
    mpc = "done" =>
        /\ IsSorted(mret)
        /\ BagOf(mret) = BagOf(ma) (+) BagOf(mb)
        /\ Len(mret) = Len(ma) + Len(mb)
        /\ (Len(mb) = 0 => mret = ma)
        /\ (Len(ma) = 0 => mret = mb)

\* a finished merge of two interleaved inputs that share a value
MergeSortedUnionWitness ==
    /\ mpc = "done"
    /\ ma = <<0, 1, 2>>
    /\ mb = <<1, 1, 2>>
    /\ mret = <<0, 1, 1, 1, 2, 2>>

-----------------------------------------------------------------------------
(* Properties of flock and funlock, under Spec *)

\* the handle is in a flock call or has returned from one (and made no call
\* since)
InFlock(p) == pc[p] # "idle" \/ ret[p] # "none"

\* all the time that passed since the first attempt was spent in sleeps of
\* exactly the retry interval
Ideal(p) ==
    \/ pc[p] \in {"attempt", "check"} /\ now - t[p] = sleeps[p] * flockRetryTimeout
    \/ pc[p] = "sleep" /\ wake[p] - t[p] = sleeps[p] * flockRetryTimeout
                       /\ now <= wake[p]

(* C2: while a handle is Locked through flock(exclusive = true) no other    *)
(* handle is Locked, in either mode; a handle Locked through                *)
(* flock(exclusive = false) excludes only exclusive holders, and the        *)
(* kernel's lock table agrees.                                              *)
MutualExclusion ==
    \A p, q \in Procs :
        p # q =>
            /\ (locked[p] /\ exclusive[p] => ~locked[q])
            /\ (held[p] = "ex" => held[q] = "none")

\* two handles hold the shared lock at the same time
MutualExclusionWitness ==
    \E p, q \in Procs :
        /\ p # q
        /\ locked[p] /\ ~exclusive[p] /\ held[p] = "sh"
        /\ locked[q] /\ ~exclusive[q] /\ held[q] = "sh"

\* the premise of C3: a flock(exclusive = true, timeout # 0) call on a valid
\* descriptor during all of which another handle held the exclusive lock
ContendedCall(q) ==
    /\ InFlock(q)
    /\ blocked[q]
    /\ exclusive[q]
    /\ timeout[q] # 0
    /\ fd[q] = "ok"

(* C3 as stated: a flock(exclusive = true, timeout = T # 0) call during all *)
(* of which another handle holds the exclusive lock never returns nil,      *)
(* every attempt gets EWOULDBLOCK, and it returns ErrTimeout once the       *)
(* deadline has elapsed, that is at an elapsed time of at least T.          *)
ContendedTimesOutAfterDeadline ==
    \A q \in Procs :
        ContendedCall(q) =>
            /\ err[q] \in {"none", "EWOULDBLOCK"}
            /\ ret[q] \in {"none", "ErrTimeout"}
            /\ ~locked[q] /\ held[q] = "none"
            /\ (ret[q] = "ErrTimeout" => since[q] >= timeout[q])

(* C3 amended: such a call never returns nil, every attempt gets            *)
(* EWOULDBLOCK, and it returns ErrTimeout at a check where the elapsed time *)
(* exceeds T - flockRetryTimeout, which can be before the deadline T.       *)
ContendedTimesOut ==
    \A q \in Procs :
        ContendedCall(q) =>
            /\ err[q] \in {"none", "EWOULDBLOCK"}
            /\ ret[q] \in {"none", "ErrTimeout"}
            /\ ~locked[q] /\ held[q] = "none"
            /\ (ret[q] = "ErrTimeout" =>
                    since[q] > timeout[q] - flockRetryTimeout)

\* a contended call that slept, then returned ErrTimeout before its deadline
ContendedTimesOutWitness ==
    \E q \in Procs :
        /\ ContendedCall(q)
        /\ ret[q] = "ErrTimeout"
        /\ sleeps[q] >= 1
        /\ since[q] < timeout[q]

(* C4: a flock call with timeout T # 0 reads the elapsed time after every   *)
(* EWOULDBLOCK and before every sleep; it sleeps only when elapsed <= T - R *)
(* and returns ErrTimeout when elapsed > T - R; no sleep is due to end      *)
(* after the deadline; when only the sleeps take time no attempt is made    *)
(* at an elapsed time greater than T; when T < R it returns ErrTimeout      *)
(* after one failed attempt without sleeping.                               *)
DeadlineCheckedBeforeSleep ==
    \A p \in Procs :
        (InFlock(p) /\ timeout[p] # 0) =>
            /\ (pc[p] = "check" => err[p] = "EWOULDBLOCK" /\ attempts[p] = sleeps[p] + 1)
            /\ (pc[p] = "sleep" =>
                    /\ err[p] = "EWOULDBLOCK"
                    /\ attempts[p] = sleeps[p]
                    /\ since[p] = wake[p] - flockRetryTimeout - t[p]
                    /\ since[p] <= timeout[p] - flockRetryTimeout
                    /\ wake[p] - t[p] <= timeout[p])
            /\ (pc[p] = "attempt" => attempts[p] = sleeps[p])
            /\ (ret[p] = "ErrTimeout" =>
                    /\ err[p] = "EWOULDBLOCK"
                    /\ attempts[p] = sleeps[p] + 1
                    /\ since[p] > timeout[p] - flockRetryTimeout)
            /\ (Ideal(p) /\ pc[p] \in {"attempt", "check"} => now - t[p] <= timeout[p])
            /\ (timeout[p] < flockRetryTimeout =>
                    /\ sleeps[p] = 0
                    /\ attempts[p] <= 1
                    /\ (pc[p] = "idle" /\ err[p] = "EWOULDBLOCK" => ret[p] = "ErrTimeout"))

\* a call that slept when the elapsed time was exactly T - R, made its next
\* attempt at the deadline and then timed out
DeadlineCheckedBeforeSleepWitness ==
    \E p \in Procs :
        /\ timeout[p] > flockRetryTimeout
        /\ ret[p] = "ErrTimeout"
        /\ sleeps[p] >= 1
        /\ since[p] = timeout[p]

(* C5: a flock call with timeout = 0 never returns ErrTimeout; it does not  *)
(* read the elapsed time, sleeps after every EWOULDBLOCK, and returns only  *)
(* nil or the error, other than EWOULDBLOCK, of its last attempt.           *)
ZeroTimeoutNeverTimesOut ==
    \A p \in Procs :
        (InFlock(p) /\ timeout[p] = 0) =>
            /\ ret[p] # "ErrTimeout"
            /\ since[p] = 0
            /\ (pc[p] \in {"attempt", "sleep"} => attempts[p] = sleeps[p])
            /\ (pc[p] = "check" => attempts[p] = sleeps[p] + 1)
            /\ (ret[p] # "none" =>
                    /\ ret[p] = err[p]
                    /\ ret[p] \in {"nil"} \cup OsErrors
                    /\ attempts[p] = sleeps[p] + 1)

\* a call without deadline that got the lock at its third attempt
ZeroTimeoutNeverTimesOutWitness ==
    \E p \in Procs :
        /\ timeout[p] = 0
        /\ ret[p] = "nil"
        /\ attempts[p] >= 3
        /\ sleeps[p] = attempts[p] - 1

(* C6: once an attempt of flock fails with an error other than EWOULDBLOCK  *)
(* the call has returned that error: no check, no sleep and no attempt      *)
(* follows, the error is not turned into ErrTimeout, and the handle holds   *)
(* no lock.                                                                 *)
OsErrorReturnedAtOnce ==
    \A p \in Procs :
        err[p] \in OsErrors =>
            /\ pc[p] = "idle"
            /\ ret[p] = err[p]
            /\ attempts[p] = sleeps[p] + 1
            /\ ~locked[p]
            /\ held[p] = "none"

\* one call failed at its first attempt, another at a later attempt
OsErrorReturnedAtOnceWitness ==
    \E p, q \in Procs :
        /\ ret[p] = "EBADF" /\ attempts[p] = 1
        /\ ret[q] = "ENOLCK" /\ attempts[q] >= 2

(* C7: a handle is Locked exactly when the kernel holds a lock for it, of   *)
(* the mode its flock call asked for: it becomes Locked only by a flock     *)
(* that returned nil and Unlocked by funlock; after a flock that returned   *)
(* ErrTimeout, or any error, the handle holds no lock.                      *)
LockedIffHeld ==
    \A p \in Procs :
        /\ locked[p] <=> held[p] # "none"
        /\ (locked[p] =>
                /\ pc[p] = "idle"
                /\ ret[p] = "nil"
                /\ held[p] = IF exclusive[p] THEN "ex" ELSE "sh")
        /\ (ret[p] \in {"ErrTimeout"} \cup OsErrors => ~locked[p] /\ held[p] = "none")
        /\ (pc[p] # "idle" => ~locked[p] /\ held[p] = "none")

\* a handle timed out against a handle that has since released the lock and
\* locked again
LockedIffHeldWitness ==
    \E p, q \in Procs :
        /\ p # q
        /\ ret[p] = "ErrTimeout"
        /\ held[p] = "none"
        /\ trip[q] = 3
        /\ locked[q]

(* C8: a funlock on a valid descriptor returns nil and leaves the handle    *)
(* without a lock; a flock call whose first attempt finds the descriptor    *)
(* valid and no other handle Locked (every earlier holder has released      *)
(* through funlock) returns nil at that attempt, without sleeping.          *)
RoundTripReleases ==
    \A p \in Procs :
        /\ (unret[p] = "nil" => held[p] = "none" /\ ~locked[p])
        /\ (unret[p] \in OsErrors => fd[p] = unret[p])
        /\ ((attempts[p] >= 1 /\ freeFirst[p]) =>
                /\ attempts[p] = 1
                /\ sleeps[p] = 0
                /\ pc[p] = "idle"
                /\ ret[p] = "nil")

\* a handle locked exclusively, unlocked, and locked shared at once; then
\* another process locked shared too
RoundTripReleasesWitness ==
    \E p, q \in Procs :
        /\ p # q
        /\ trip[p] = 3
        /\ freeFirst[p]
        /\ locked[p]
        /\ attempts[p] = 1
        /\ locked[q]
        /\ attempts[q] = 1

-----------------------------------------------------------------------------
(* Liveness of flock, under LiveSpec *)

\* another handle holds a lock that conflicts with the one p's call asks for
ConflictingHolder(p) == Conflict(p, LockFlag(exclusive[p]))

\* p's flock call with timeout = 0 got EWOULDBLOCK and is in the retry loop
Waiting(p) == pc[p] \in {"check", "sleep"} /\ timeout[p] = 0

\* p's flock call has returned nil and p holds the lock it asked for
Got(p) ==
    /\ pc[p] = "idle"
    /\ ret[p] = "nil"
    /\ held[p] = ModeOf(LockFlag(exclusive[p]))

\* p's flock call has returned the error the kernel answers for p's
\* descriptor, and p holds no lock
Failed(p) ==
    /\ pc[p] = "idle"
    /\ ret[p] \in OsErrors
    /\ ret[p] = fd[p]
    /\ held[p] = "none"
    /\ ~locked[p]

(* C18, as claimed: if from some time on no other handle holds a lock that  *)
(* conflicts with the request (the holder has called funlock and nobody     *)
(* acquired a conflicting lock afterwards), a flock call with timeout = 0   *)
(* that waits in the retry loop eventually returns nil holding the          *)
(* requested lock.                                                          *)
WaiterGetsLock ==
    \A p \in Procs :
        (<>[](~ConflictingHolder(p))) => (Waiting(p) ~> Got(p))

(* C18, amended: under the same premise a flock call with timeout = 0 that  *)
(* waits in the retry loop eventually returns: nil, holding the requested   *)
(* lock, when its descriptor stays valid (never an error then), and         *)
(* otherwise nil or the error the kernel answers for the descriptor, with   *)
(* no lock held in that case.  It never sleeps forever once the lock is     *)
(* free.                                                                    *)
WaiterReturns ==
    \A p \in Procs :
        /\ (<>[](~ConflictingHolder(p))) =>
               (Waiting(p) ~> (Got(p) \/ Failed(p)))
        /\ [](Failed(p) => fd[p] # "ok")
        /\ ((<>[](~ConflictingHolder(p)) /\ [](fd[p] = "ok")) =>
               (Waiting(p) ~> Got(p)))

\* a handle that slept twice while the other held a lock, and got its
\* exclusive lock at the attempt after the other's funlock
WaiterReturnsWitness ==
    \E p, q \in Procs :
        /\ p # q
        /\ Got(p)
        /\ exclusive[p]
        /\ timeout[p] = 0
        /\ sleeps[p] >= 2
        /\ attempts[p] = sleeps[p] + 1
        /\ unret[q] = "nil"
        /\ held[q] = "none"

-----------------------------------------------------------------------------
(* Further properties of mergepgids *)

(* C12: mergepgids(dst, a, b) with len(dst) < len(a)+len(b) panics before  *)
(* it writes to dst: the call never gets past the length check, dst holds   *)
(* what the caller passed, nothing was appended and no result is returned,  *)
(* whatever the lengths of a and b, empty ones included.                    *)
PanicBeforeWrite ==
    /\ ((mcaller = "direct" /\ Len(dst0) < Len(ma) + Len(mb)) =>
            /\ mpc \in {"mergepgids", "panic"}
            /\ dst = dst0
            /\ mlen = 0
            /\ lead = <<>>
            /\ follow = <<>>
            /\ mret = <<>>)
    /\ (mpc = "panic" => dst = dst0 /\ Len(dst0) < Len(ma) + Len(mb))

\* a panic on a buffer one element short that holds a stale page id, with
\* a empty
PanicBeforeWriteWitness ==
    /\ mpc = "panic"
    /\ ma = <<>>
    /\ mb = <<0, 1>>
    /\ dst = <<2>>

(* C17: for non-empty sorted a and b the loop of mergepgids terminates; at  *)
(* the start of every iteration lead and follow are non-empty and           *)
(* lead[0] <= follow[0], so the search gives n >= 1 and every iteration     *)
(* appends at least one element.                                            *)
LoopProgress ==
    /\ [](mpc = "loop" =>
            /\ Len(lead) > 0
            /\ Len(follow) > 0
            /\ lead[1] <= follow[1]
            /\ Search(lead, follow[1]) >= 1)
    /\ [][mpc = "loop" => mlen' >= mlen + 1]_vars
    /\ ((Len(ma) > 0 /\ Len(mb) > 0 /\ ~TooSmall(dst0, ma, mb)) ~>
            mpc \in {"done", "returned"})

\* the start of the second iteration: one element was appended, lead and
\* follow have been swapped
LoopProgressWitness ==
    /\ mpc = "loop"
    /\ ma = <<0, 2>>
    /\ mb = <<1, 2, 2>>
    /\ mlen = 1
    /\ lead = <<1, 2, 2>>
    /\ follow = <<2>>

-----------------------------------------------------------------------------
(* Properties of the page accessors, under PageSpec *)

(* C13: typ() returns "branch", "leaf", "meta" or "freelist" when flags is  *)
(* exactly the one bit 0x01, 0x02, 0x04 or 0x10, and for every other flags  *)
(* value (zero, an undefined bit, more than one type bit) the string        *)
(* "unknown<..>" holding the flags in hexadecimal.                          *)
TypExactBit ==
    pcall.op = "typ" =>
        /\ (page.flags = branchPageFlag => pcall.ret = "branch")
        /\ (page.flags = leafPageFlag => pcall.ret = "leaf")
        /\ (page.flags = metaPageFlag => pcall.ret = "meta")
        /\ (page.flags = freelistPageFlag => pcall.ret = "freelist")
        /\ (page.flags \notin {branchPageFlag, leafPageFlag, metaPageFlag,
                               freelistPageFlag} =>
                /\ pcall.ret \notin {"branch", "leaf", "meta", "freelist"}
                /\ pcall.ret = "unknown<" \o Hex02(page.flags) \o ">")

(* C14: leafPageElement(index) and branchPageElement(index) with            *)
(* index >= count fail fast and return no view of the bytes after the       *)
(* count-th element.                                                        *)
IndexBeyondCountFails ==
    (pcall.op \in {"leafPageElement", "branchPageElement"}
        /\ pcall.arg >= page.count) => pcall.panic

(* C15: leafPageElements() and branchPageElements() return a slice of       *)
(* exactly count elements whose i-th element is at header size + i *        *)
(* element size from the start of the page; with count = 0 they return nil, *)
(* a slice of no elements that refers to no byte after the header.          *)
ElementsExactlyCount ==
    pcall.op \in {"leafPageElements", "branchPageElements"} =>
        LET size == IF pcall.op = "leafPageElements"
                    THEN leafPageElementSize
                    ELSE branchPageElementSize
        IN  /\ pcall.ret.len = page.count
            /\ pcall.ret.size = size
            /\ \A i \in 0..(page.count - 1) :
                   pcall.ret.data + i * pcall.ret.size =
                       page.addr + pageHeaderSize + i * size
            /\ (page.count = 0 => pcall.ret.data = NilPtr)

\* the two leaf elements of a page that does not start the buffer
ElementsExactlyCountWitness ==
    /\ pcall.op = "leafPageElements"
    /\ page.addr = 1
    /\ page.count = 2
    /\ pcall.ret.len = 2
    /\ pcall.ret.data = 17

(* C16: for the leaf element at address e with fields pos, ksize, vsize,    *)
(* key() is the ksize bytes [e+pos, e+pos+ksize) counted from the element's *)
(* own address and value() is the vsize bytes [e+pos+ksize,                 *)
(* e+pos+ksize+vsize) right after the key: adjacent, not overlapping.       *)
KeyValueRanges ==
    pcall.op \in {"key", "value"} =>
        LET n == pcall.arg
            keyLo == n.addr + n.pos
            keyHi == n.addr + n.pos + n.ksize
        IN  /\ \E i \in 0..(page.count - 1) :
                   n.addr = page.addr + pageHeaderSize + i * leafPageElementSize
            /\ (pcall.op = "key" =>
                    /\ pcall.ret.lo = keyLo
                    /\ pcall.ret.hi = keyHi
                    /\ pcall.ret.hi - pcall.ret.lo = n.ksize)
            /\ (pcall.op = "value" =>
                    /\ pcall.ret.lo = keyHi
                    /\ pcall.ret.hi = keyHi + n.vsize
                    /\ pcall.ret.hi - pcall.ret.lo = n.vsize
                    /\ {b \in keyLo..(keyHi - 1) :
                            b >= pcall.ret.lo /\ b < pcall.ret.hi} = {})

\* the value of the second element of a page that does not start the
\* buffer, with a key and a value of two bytes
KeyValueRangesWitness ==
    /\ pcall.op = "value"
    /\ page.addr = 1
    /\ pcall.arg = LeafElement(33, 1, 2, 2)
    /\ pcall.ret.lo = 36
    /\ pcall.ret.hi = 38

-----------------------------------------------------------------------------
(* Properties of mmap and munmap, under MmapSpec *)

(* C9: after munmap the fields dataref, data and datasz are nil, nil and 0; *)
(* a munmap that finds nothing mapped makes no Munmap system call, changes  *)
(* neither the fields nor the mappings, and returns nil.                    *)
MunmapClearsFields ==
    mcall.op = "munmap" =>
        /\ Fields(dataref, data, datasz) = Fields(0, 0, 0)
        /\ (mcall.pre.dataref = 0 =>
                /\ ~mcall.sysUnmap
                /\ mcall.ret = "nil"
                /\ Fields(dataref, data, datasz) = mcall.pre
                /\ osmaps = mcall.premaps)
        /\ (mcall.pre.dataref # 0 => mcall.sysUnmap)

\* the second of two munmap calls in a row, the first on a mapped handle
MunmapClearsFieldsWitness ==
    /\ mcall.op = "munmap"
    /\ mcall.prevOp = "munmap"
    /\ mcall.prevRef # 0
    /\ mcall.pre.dataref = 0
    /\ mcall.ret = "nil"

(* C10: whenever mmap returns an error the fields dataref, data and datasz  *)
(* are what they were before the call and no mapping the call created is    *)
(* still established.                                                       *)
MmapAtomicOnFailure ==
    (mcall.op = "mmap" /\ mcall.ret # "nil") =>
        /\ Fields(dataref, data, datasz) = mcall.pre
        /\ \A m \in osmaps : m.id # mcall.created

(* C11: in mmap, an error of syscall.Mmap is returned without madvise being *)
(* called; when madvise answers nil or ENOSYS mmap returns nil and the      *)
(* fields hold the new buffer, a pointer to its first byte, and sz; when    *)
(* madvise answers any other error mmap returns an error.                   *)
AdviseOutcome ==
    mcall.op = "mmap" =>
        /\ (mcall.created = 0 =>
                /\ ~mcall.advised
                /\ mcall.ret \in {"EINVAL", "ENOMEM"})
        /\ (mcall.created # 0 => mcall.advised)
        /\ ((mcall.advised /\ mcall.adv \in {"nil", "ENOSYS"}) =>
                /\ mcall.ret = "nil"
                /\ Fields(dataref, data, datasz) =
                       Fields(mcall.created, mcall.created, mcall.sz))
        /\ ((mcall.advised /\ mcall.adv \notin {"nil", "ENOSYS"}) =>
                mcall.ret \notin {"nil", "none"})

\* an mmap on a mapped handle whose madvise was not implemented
AdviseOutcomeWitness ==
    /\ mcall.op = "mmap"
    /\ mcall.adv = "ENOSYS"
    /\ mcall.ret = "nil"
    /\ mcall.pre.dataref # 0
    /\ dataref = mcall.created
    /\ datasz = mcall.sz

(* C19: after every sequence of mmap and munmap calls the fields dataref,   *)
(* data and datasz are all set or all nil, nil, 0; when set, datasz is the  *)
(* sz of the last mmap that returned nil and data points to the first byte  *)
(* of the buffer that call mapped, which dataref holds.                     *)
FieldsAgree ==
    /\ (dataref = 0 <=> data = 0)
    /\ (dataref = 0 <=> datasz = 0)
    /\ (dataref # 0 =>
            /\ dataref = mcall.lastId
            /\ data = mcall.lastId
            /\ datasz = mcall.lastSz)

\* the handle is mapped by a second successful mmap after a failed munmap
\* and a failed mmap
FieldsAgreeWitness ==
    /\ mcall.op = "mmap"
    /\ mcall.ret = "nil"
    /\ mcall.prevOp = "mmap"
    /\ mcall.prevRet # "nil"
    /\ dataref = mcall.lastId
    /\ dataref > 1
    /\ datasz = mcall.lastSz
    /\ \E m \in osmaps : m.id < dataref

(* C20: a munmap whose syscall.Munmap fails returns that error with the     *)
(* fields dataref, data and datasz cleared; the munmap that follows it      *)
(* makes no Munmap system call and returns nil.                             *)
FailedUnmapClears ==
    /\ ((mcall.op = "munmap" /\ mcall.sysUnmap /\ mcall.ret # "nil") =>
            /\ mcall.ret \in SysMunmapResults
            /\ Fields(dataref, data, datasz) = Fields(0, 0, 0))
    /\ ((mcall.op = "munmap" /\ mcall.prevOp = "munmap"
            /\ mcall.prevRet # "nil") =>
            /\ ~mcall.sysUnmap
            /\ mcall.ret = "nil"
            /\ osmaps = mcall.premaps)

\* the munmap after a munmap whose system call failed: the mapping is still
\* established and the handle does not refer to it
FailedUnmapClearsWitness ==
    /\ mcall.op = "munmap"
    /\ mcall.prevOp = "munmap"
    /\ mcall.prevRet = "EINVAL"
    /\ mcall.prevRef # 0
    /\ mcall.ret = "nil"
    /\ osmaps # {}

=============================================================================
